---- MODULE Spec2Model ----
(***************************************************************************)
(* A model of the PostgreSQL migration driver of dialect/sql/schema        *)
(* (postgres.go): version check, DDL generation, catalog introspection,    *)
(* type mapping, default rendering, index naming, foreign keys and the     *)
(* result cursors of the introspection queries.                            *)
(*                                                                         *)
(* Go strings are TLA+ strings; TLC evaluates Len, SubSeq and \o on them.  *)
(* String positions follow Go: 0-based, -1 for "not found".                *)
(***************************************************************************)
EXTENDS Integers, Sequences, FiniteSets, TLC

VARIABLES
    d,       \* the Postgres driver struct: [version]
    phase,   \* where the migration run is: "new", "inited", "failed", "done"
    target,  \* the target Table handed to the migration (NoTable before)
    db,      \* the live database catalog of that table
    live,    \* the Table read back by table() (NoTable before)
    tx,      \* the queries and statements issued on the connection by the last call
    ret,     \* the last call and what it returned
    stack,   \* the call stack of the introspection call in progress (<<>> when none)
    cursors, \* the result cursors (sql.Rows) of the connection
    loaded   \* how many tables table() has loaded in this run

vars == <<d, phase, target, db, live, tx, ret, stack, cursors, loaded>>

(***************************************************************************)
(* package strings, strconv                                                *)
(***************************************************************************)
Char(s, i) == SubSeq(s, i + 1, i + 1)

HasPrefix(s, p) == Len(s) >= Len(p) /\ SubSeq(s, 1, Len(p)) = p

HasSuffix(s, p) == Len(s) >= Len(p) /\ SubSeq(s, Len(s) - Len(p) + 1, Len(s)) = p

TrimPrefix(s, p) == IF HasPrefix(s, p) THEN SubSeq(s, Len(p) + 1, Len(s)) ELSE s

TrimSuffix(s, p) == IF HasSuffix(s, p) THEN SubSeq(s, 1, Len(s) - Len(p)) ELSE s

\* strings.Index: the 0-based position of the first occurrence, or -1.
Index(s, sub) ==
    LET hits == {i \in 0..(Len(s) - Len(sub)) : SubSeq(s, i + 1, i + Len(sub)) = sub}
    IN  IF hits = {} THEN -1 ELSE CHOOSE i \in hits : \A j \in hits : i <= j

\* strings.LastIndexByte (and LastIndex): the last occurrence, or -1.
LastIndex(s, sub) ==
    LET hits == {i \in 0..(Len(s) - Len(sub)) : SubSeq(s, i + 1, i + Len(sub)) = sub}
    IN  IF hits = {} THEN -1 ELSE CHOOSE i \in hits : \A j \in hits : i >= j

Contains(s, sub) == Index(s, sub) # -1

\* strings.Split(s, sep)[0]: the text before the first separator, or all of s.
SplitFirst(s, sep) == IF Index(s, sep) = -1 THEN s ELSE SubSeq(s, 1, Index(s, sep))

\* strings.Trim(s, cutset) for a one-character cutset.
Trim(s, c) ==
    LET keep == {i \in 1..Len(s) : SubSeq(s, i, i) # c}
    IN  IF keep = {} THEN ""
        ELSE SubSeq(s, CHOOSE i \in keep : \A j \in keep : i <= j,
                       CHOOSE i \in keep : \A j \in keep : i >= j)

RECURSIVE ReplaceAll(_, _, _)
\* strings.ReplaceAll(s, old, new) for a one-character old.
ReplaceAll(s, old, new) ==
    IF s = "" THEN ""
    ELSE (IF SubSeq(s, 1, 1) = old THEN new ELSE SubSeq(s, 1, 1))
             \o ReplaceAll(SubSeq(s, 2, Len(s)), old, new)

RECURSIVE Join(_, _)
\* strings.Join(elems, sep)
Join(elems, sep) ==
    IF elems = <<>> THEN ""
    ELSE IF Len(elems) = 1 THEN elems[1]
    ELSE elems[1] \o sep \o Join(Tail(elems), sep)

Lower == {"a", "b", "c", "d", "e", "f", "g", "h", "i", "j", "k", "l", "m",
          "n", "o", "p", "q", "r", "s", "t", "u", "v", "w", "x", "y", "z"}

Upper == {"A", "B", "C", "D", "E", "F", "G", "H", "I", "J", "K", "L", "M",
          "N", "O", "P", "Q", "R", "S", "T", "U", "V", "W", "X", "Y", "Z"}

Digits == <<"0", "1", "2", "3", "4", "5", "6", "7", "8", "9">>

IsDigit(r) == \E k \in 1..10 : Digits[k] = r

DigitVal(r) == (CHOOSE k \in 1..10 : Digits[k] = r) - 1

RECURSIVE Itoa(_)
\* fmt's %d (strconv.Itoa) of a natural number.
Itoa(n) == IF n < 10 THEN Digits[n + 1] ELSE Itoa(n \div 10) \o Digits[(n % 10) + 1]

AllDigits(s) == s # "" /\ \A i \in 1..Len(s) : IsDigit(SubSeq(s, i, i))

RECURSIVE Atoi(_)
\* strconv.Atoi of a string of digits.
Atoi(s) ==
    IF Len(s) = 1 THEN DigitVal(s)
    ELSE 10 * Atoi(SubSeq(s, 1, Len(s) - 1)) + DigitVal(SubSeq(s, Len(s), Len(s)))

(***************************************************************************)
(* schema/field: the semantic column types                                 *)
(***************************************************************************)
TypeInvalid == "invalid"

IntTypes == {"int8", "int16", "int32", "int64", "int"}

UintTypes == {"uint8", "uint16", "uint32", "uint64", "uint"}

FloatTypes == {"float32", "float64"}

FieldTypes ==
    {"bool", "time", "json", "uuid", "bytes", "enum", "string", "other"}
        \cup IntTypes \cup UintTypes \cup FloatTypes

\* field.Type.Numeric
Numeric(t) == t \in IntTypes \cup UintTypes \cup FloatTypes

(***************************************************************************)
(* Column, Index, Table                                                    *)
(***************************************************************************)
NoDefault == [kind |-> "nil", s |-> ""]

StringDefault(v) == [kind |-> "string", s |-> v]

BoolDefault(b) == [kind |-> "bool", s |-> IF b THEN "true" ELSE "false"]

\* &Column{}: the zero value. SchemaType holds the dialect.Postgres entry of
\* the override map ("" when the map is nil or has no such entry).
NewColumn(name) ==
    [Name |-> name, Type |-> TypeInvalid, Size |-> 0, SchemaType |-> "", typ |-> "",
     Nullable |-> FALSE, Unique |-> FALSE, Key |-> "", Default |-> NoDefault]

NoTable == [Name |-> "", Columns |-> <<>>, PrimaryKey |-> <<>>, Indexes |-> <<>>]

\* maxCharSize defines the maximum size of limited character types (10 MB).
maxCharSize == 10485760

(***************************************************************************)
(* Column helpers of column.go                                             *)
(***************************************************************************)
\* Column.scanTypeOr: the native type recorded by introspection, or t.
scanTypeOr(c, t) == IF c.typ # "" THEN c.typ ELSE t

\* Column.supportDefault: the column types that may carry a DEFAULT clause.
supportDefault(c) ==
    CASE c.Type \in {"string", "enum"} -> c.Size < 65536
      [] c.Type \in {"bool", "time", "uuid"} -> TRUE
      [] OTHER -> Numeric(c.Type)

\* Column.ScanDefault: the catalog's default text to the column's Default.
ScanDefault(c, value) ==
    CASE c.Type \in {"string", "enum"} ->
             [err |-> "", c |-> [c EXCEPT !.Default = StringDefault(value)]]
      [] c.Type = "bool" ->
             IF value \in {"true", "false"}
             THEN [err |-> "", c |-> [c EXCEPT !.Default = BoolDefault(value = "true")]]
             ELSE [err |-> "scanning bool value", c |-> c]
      [] Numeric(c.Type) ->
             IF AllDigits(value)
             THEN [err |-> "", c |-> [c EXCEPT !.Default = [kind |-> "int", s |-> value]]]
             ELSE [err |-> "scanning numeric value", c |-> c]
      [] c.Type = "uuid" -> [err |-> "", c |-> c]
      [] OTHER -> [err |-> "unsupported default type", c |-> c]

(***************************************************************************)
(* cType: the semantic type to the PostgreSQL type                         *)
(***************************************************************************)
\* What a panic of the driver is shown as where a string is expected.
Panic == "<panic>"

\* cType with uint32 widened to bigint, as uint64 is.
cTypeWidened(c) ==
    IF c.SchemaType # "" THEN c.SchemaType
    ELSE CASE c.Type = "bool" -> "boolean"
           [] c.Type \in {"uint8", "int8", "int16", "uint16"} -> "smallint"
           [] c.Type \in {"int32"} -> "int"
           [] c.Type \in {"int", "uint", "int64", "uint64", "uint32"} -> "bigint"
           [] c.Type = "float32" -> scanTypeOr(c, "real")
           [] c.Type = "float64" -> scanTypeOr(c, "double precision")
           [] c.Type = "bytes" -> "bytea"
           [] c.Type = "json" -> "jsonb"
           [] c.Type = "uuid" -> "uuid"
           [] c.Type = "string" -> IF c.Size > maxCharSize THEN "text" ELSE "varchar"
           [] c.Type = "time" -> scanTypeOr(c, "timestamp with time zone")
           [] c.Type = "enum" -> "varchar"
           [] c.Type = "other" -> c.typ
           [] OTHER -> Panic

\* Postgres.cType
cType(c) ==
    IF c.SchemaType # "" THEN c.SchemaType
    ELSE CASE c.Type = "bool" -> "boolean"
           [] c.Type \in {"uint8", "int8", "int16", "uint16"} -> "smallint"
           [] c.Type \in {"int32", "uint32"} -> "int"
           [] c.Type \in {"int", "uint", "int64", "uint64"} -> "bigint"
           [] c.Type = "float32" -> scanTypeOr(c, "real")
           [] c.Type = "float64" -> scanTypeOr(c, "double precision")
           [] c.Type = "bytes" -> "bytea"
           [] c.Type = "json" -> "jsonb"
           [] c.Type = "uuid" -> "uuid"
           [] c.Type = "string" -> IF c.Size > maxCharSize THEN "text" ELSE "varchar"
           [] c.Type = "time" -> scanTypeOr(c, "timestamp with time zone")
           [] c.Type = "enum" -> "varchar"
           [] c.Type = "other" -> c.typ
           [] OTHER -> Panic

(***************************************************************************)
(* callExpr, isAlpha, arrayType, needsConversion                           *)
(***************************************************************************)
\* isAlpha(r, digit)
isAlpha(r, digit) == r \in Lower \/ r \in Upper \/ r = "_" \/ (digit /\ IsDigit(r))

\* callExpr reports if the given string ~looks like a function call expression.
callExpr(s0) ==
    LET s == IF ~HasSuffix(s0, ")") /\ HasSuffix(SplitFirst(s0, "::"), ")")
             THEN SplitFirst(s0, "::") ELSE s0
        i == Index(s, "(")
        j == LastIndex(s, ")")
    IN  IF i = -1 \/ i > j \/ j # Len(s) - 1 THEN FALSE
        ELSE \A k \in 0..(i - 1) : isAlpha(Char(s, k), k > 0)

\* arrayType slices t[i+1 : j]; Go panics when the last '[' is after the last ']'.
arrayTypePanics(t) ==
    LastIndex(t, "[") # -1 /\ LastIndex(t, "]") # -1 /\ LastIndex(t, "[") + 1 > LastIndex(t, "]")

\* arrayType reports if the given string is an array type (e.g. int[], text[2]).
arrayType(t) ==
    LET i == LastIndex(t, "[")
        j == LastIndex(t, "]")
    IN  IF i = -1 \/ j = -1 THEN FALSE
        ELSE \A k \in (i + 1)..(j - 1) : IsDigit(Char(t, k))

\* Postgres.needsConversion
needsConversion(old, new) ==
    LET oldT == cType(old)
        newT == cType(new)
    IN  oldT # newT /\ (oldT # "ARRAY" \/ ~arrayType(newT))

(***************************************************************************)
(* scanColumn: one row of information_schema.columns to a Column           *)
(***************************************************************************)
NullString == [Valid |-> FALSE, String |-> ""]

ValidString(v) == [Valid |-> TRUE, String |-> v]

NullInt64 == [Valid |-> FALSE, Int64 |-> 0]

ValidInt64(n) == [Valid |-> TRUE, Int64 |-> n]

\* The first switch of scanColumn: c.typ to c.Type, SchemaType, Size.
scanType(c, udt, numericPrecision, numericScale, characterMaximumLen) ==
    CASE c.typ = "boolean" -> [err |-> "", c |-> [c EXCEPT !.Type = "bool"]]
      [] c.typ = "smallint" -> [err |-> "", c |-> [c EXCEPT !.Type = "int16"]]
      [] c.typ = "integer" -> [err |-> "", c |-> [c EXCEPT !.Type = "int32"]]
      [] c.typ = "bigint" -> [err |-> "", c |-> [c EXCEPT !.Type = "int64"]]
      [] c.typ = "real" -> [err |-> "", c |-> [c EXCEPT !.Type = "float32"]]
      [] c.typ = "double precision" -> [err |-> "", c |-> [c EXCEPT !.Type = "float64"]]
      [] c.typ \in {"numeric", "decimal"} ->
             [err |-> "",
              c |-> [c EXCEPT !.Type = "float64",
                              !.SchemaType =
                                  IF numericPrecision.Valid
                                  THEN c.typ \o "(" \o Itoa(numericPrecision.Int64) \o ","
                                           \o Itoa(numericScale.Int64) \o ")"
                                  ELSE @]]
      [] c.typ = "text" ->
             [err |-> "", c |-> [c EXCEPT !.Type = "string", !.Size = maxCharSize + 1]]
      [] c.typ \in {"character", "character varying"} ->
             [err |-> "",
              c |-> [c EXCEPT !.Type = "string",
                              !.SchemaType =
                                  IF characterMaximumLen.Valid
                                  THEN "varchar(" \o Itoa(characterMaximumLen.Int64) \o ")"
                                  ELSE @]]
      [] c.typ \in {"date", "time", "timestamp", "timestamp with time zone",
                    "timestamp without time zone"} ->
             [err |-> "", c |-> [c EXCEPT !.Type = "time"]]
      [] c.typ = "bytea" -> [err |-> "", c |-> [c EXCEPT !.Type = "bytes"]]
      [] c.typ = "jsonb" -> [err |-> "", c |-> [c EXCEPT !.Type = "json"]]
      [] c.typ = "uuid" -> [err |-> "", c |-> [c EXCEPT !.Type = "uuid"]]
      [] c.typ \in {"cidr", "inet", "macaddr", "macaddr8"} ->
             [err |-> "", c |-> [c EXCEPT !.Type = "other"]]
      [] c.typ = "ARRAY" ->
             IF ~udt.Valid
             THEN [err |-> "missing array type", c |-> [c EXCEPT !.Type = "other"]]
             ELSE [err |-> "",
                   c |-> [c EXCEPT !.Type = "other", !.SchemaType = "ARRAY",
                                   !.typ = udt.String]]
      [] c.typ \in {"USER-DEFINED", "tstzrange", "interval"} ->
             IF ~udt.Valid
             THEN [err |-> "missing user defined type", c |-> [c EXCEPT !.Type = "other"]]
             ELSE [err |-> "", c |-> [c EXCEPT !.Type = "other", !.SchemaType = udt.String]]
      [] OTHER -> [err |-> "", c |-> c]

\* The second switch of scanColumn: the column_default text to c.Default.
scanDefault(c, defaults) ==
    IF ~defaults.Valid \/ c.Type = "time" \/ callExpr(defaults.String)
    THEN [err |-> "", c |-> c]
    ELSE IF Contains(defaults.String, "::")
    THEN ScanDefault(c, Trim(SplitFirst(defaults.String, "::"), "'"))
    ELSE ScanDefault(c, defaults.String)

\* Postgres.scanColumn
scanColumn(row) ==
    LET c0 == [NewColumn(row.column_name) EXCEPT
                   !.typ = row.data_type,
                   !.Nullable = row.is_nullable.Valid /\ row.is_nullable.String = "YES"]
        t  == scanType(c0, row.udt_name, row.numeric_precision, row.numeric_scale,
                       row.character_maximum_length)
    IN  IF t.err # "" THEN t ELSE scanDefault(t.c, row.column_default)

(***************************************************************************)
(* writeDefault: the DEFAULT clause of a column definition                 *)
(***************************************************************************)
\* Postgres.writeDefault: the attribute written to the builder ("" for none).
writeDefault(c, clause) ==
    IF c.Default.kind = "nil" \/ ~supportDefault(c) THEN ""
    ELSE IF c.Default.kind = "string" /\ c.Type # "uuid" /\ c.Type # "time"
                /\ ~Numeric(c.Type)
    THEN clause \o " " \o "'" \o ReplaceAll(c.Default.s, "'", "''") \o "'"
    ELSE clause \o " " \o c.Default.s

(***************************************************************************)
(* Index names: hasUniqueName, addIndex, indexes                           *)
(***************************************************************************)
\* &Index{}: Columns are the target's column names, columns the names read
\* from the catalog, realname the name stored in the catalog.
NewIndex(name, unique, cols) ==
    [Name |-> name, Unique |-> unique, primary |-> FALSE, realname |-> "",
     Columns |-> cols, columns |-> <<>>]

\* Index.columnNames: the scanned names if any, else the target's.
columnNames(i) == IF Len(i.columns) > 0 THEN i.columns ELSE i.Columns

\* hasUniqueName reports if the index has a unique name in the schema.
hasUniqueName(i) ==
    LET name   == TrimSuffix(i.Name, "_key")
        suffix == Join(columnNames(i), "_")
    IN  IF ~HasSuffix(name, suffix) THEN TRUE ELSE name # suffix

\* Postgres.addIndex: the CREATE INDEX IF NOT EXISTS statement.
addIndex(i, table) ==
    [name |-> IF ~hasUniqueName(i) THEN table \o "_" \o i.Name ELSE i.Name,
     table |-> table, unique |-> i.Unique, columns |-> i.Columns]

\* One iteration of the rows.Next loop of indexes: idxs is the list built so
\* far (the names map holds the same objects, keyed by their Name).
indexesStep(idxs, table, row) ==
    LET short == TrimPrefix(row.name, table \o "_")
        at    == {k \in 1..Len(idxs) : idxs[k].Name = short}
    IN  IF at = {}
        THEN Append(idxs, [Name |-> short, Unique |-> row.unique, primary |-> row.primary,
                           realname |-> row.name, Columns |-> <<>>,
                           columns |-> <<row.column>>])
        ELSE LET k == CHOOSE k \in at : TRUE
             IN  [idxs EXCEPT ![k].columns = Append(@, row.column)]

RECURSIVE indexesLoop(_, _, _)
indexesLoop(idxs, table, rows) ==
    IF rows = <<>> THEN idxs
    ELSE indexesLoop(indexesStep(idxs, table, Head(rows)), table, Tail(rows))

\* Postgres.indexes, given the rows its query returned.
indexes(table, rows) == indexesLoop(<<>>, table, rows)

(***************************************************************************)
(* The catalog: what PostgreSQL stores for the statements the driver runs, *)
(* and what information_schema.columns and pg_index report of it           *)
(***************************************************************************)
NoCatalog == [exists |-> FALSE, columns |-> <<>>, indexes |-> {}]

\* The pg_type name (udt_name) of an array element type.
udtName(elem) ==
    CASE elem = "int" -> "int4"
      [] elem = "integer" -> "int4"
      [] elem = "bigint" -> "int8"
      [] elem = "smallint" -> "int2"
      [] elem = "varchar" -> "varchar"
      [] OTHER -> elem

\* The type columns of information_schema.columns for a column declared with
\* the given native type: data_type holds the canonical SQL name (integer for
\* int, character varying for varchar, numeric for decimal, timestamp without
\* time zone for timestamp, ARRAY for any array).
catalogType(native) ==
    LET base == [data_type |-> native, udt_name |-> ValidString(native),
                 numeric_precision |-> NullInt64, numeric_scale |-> NullInt64,
                 character_maximum_length |-> NullInt64]
        open == Index(native, "(")
        comma == Index(native, ",")
        head == SubSeq(native, 1, open)
    IN  CASE arrayType(native) /\ ~arrayTypePanics(native) /\ Index(native, "[") > 0 ->
                 [base EXCEPT !.data_type = "ARRAY",
                              !.udt_name = ValidString(
                                  "_" \o udtName(SubSeq(native, 1, Index(native, "["))))]
          [] open > 0 /\ comma > open /\ HasSuffix(native, ")")
                 /\ head \in {"numeric", "decimal"}
                 /\ AllDigits(SubSeq(native, open + 2, comma))
                 /\ AllDigits(SubSeq(native, comma + 2, Len(native) - 1)) ->
                 [base EXCEPT !.data_type = "numeric", !.udt_name = ValidString("numeric"),
                              !.numeric_precision =
                                  ValidInt64(Atoi(SubSeq(native, open + 2, comma))),
                              !.numeric_scale =
                                  ValidInt64(Atoi(SubSeq(native, comma + 2, Len(native) - 1)))]
          [] open > 0 /\ comma = -1 /\ HasSuffix(native, ")") /\ head = "varchar"
                 /\ AllDigits(SubSeq(native, open + 2, Len(native) - 1)) ->
                 [base EXCEPT !.data_type = "character varying",
                              !.udt_name = ValidString("varchar"),
                              !.character_maximum_length =
                                  ValidInt64(Atoi(SubSeq(native, open + 2, Len(native) - 1)))]
          [] native = "int" -> [base EXCEPT !.data_type = "integer", !.udt_name = ValidString("int4")]
          [] native = "smallint" -> [base EXCEPT !.udt_name = ValidString("int2")]
          [] native = "bigint" -> [base EXCEPT !.udt_name = ValidString("int8")]
          [] native = "boolean" -> [base EXCEPT !.udt_name = ValidString("bool")]
          [] native = "real" -> [base EXCEPT !.udt_name = ValidString("float4")]
          [] native = "double precision" -> [base EXCEPT !.udt_name = ValidString("float8")]
          [] native = "varchar" ->
                 [base EXCEPT !.data_type = "character varying",
                              !.udt_name = ValidString("varchar")]
          [] native \in {"numeric", "decimal"} ->
                 [base EXCEPT !.data_type = "numeric", !.udt_name = ValidString("numeric")]
          [] native = "timestamp with time zone" ->
                 [base EXCEPT !.udt_name = ValidString("timestamptz")]
          [] native = "timestamp" ->
                 [base EXCEPT !.data_type = "timestamp without time zone",
                              !.udt_name = ValidString("timestamp")]
          [] native \in {"text", "bytea", "jsonb", "uuid", "date", "inet", "cidr",
                         "macaddr", "interval"} -> base
          [] OTHER -> [base EXCEPT !.data_type = ""]

\* Whether the server accepts the native type of a column definition.
knownType(native) == catalogType(native).data_type # ""

\* column_default for a DEFAULT attribute: a quoted literal is stored as
\* written, followed by the ::type cast to the column's type; any other
\* expression is stored verbatim; NULL when the column has no default.
catalogDefault(attr, data_type) ==
    LET expr == TrimPrefix(attr, "DEFAULT ")
    IN  IF attr = "" THEN NullString
        ELSE IF HasPrefix(expr, "'") THEN ValidString(expr \o "::" \o data_type)
        ELSE ValidString(expr)

\* Postgres.addColumn: the native type and the attributes of the definition.
addColumn(c) ==
    [name |-> c.Name, type |-> cType(c), unique |-> c.Unique, nullable |-> c.Nullable,
     default |-> writeDefault(c, "DEFAULT")]

\* The information_schema.columns row of a column created from addColumn(c).
catalogColumn(b) ==
    LET t == catalogType(b.type)
    IN  [column_name |-> b.name, data_type |-> t.data_type,
         is_nullable |-> ValidString(IF b.nullable THEN "YES" ELSE "NO"),
         column_default |-> catalogDefault(b.default, t.data_type),
         udt_name |-> t.udt_name, numeric_precision |-> t.numeric_precision,
         numeric_scale |-> t.numeric_scale,
         character_maximum_length |-> t.character_maximum_length]

\* The byte order of the characters of identifiers (pg_class.relname sorts bytewise).
ByteOrder == "0123456789ABCDEFGHIJKLMNOPQRSTUVWXYZ_abcdefghijklmnopqrstuvwxyz"

RECURSIVE StrLess(_, _)
StrLess(a, b) ==
    IF b = "" THEN FALSE
    ELSE IF a = "" THEN TRUE
    ELSE IF SubSeq(a, 1, 1) # SubSeq(b, 1, 1)
    THEN Index(ByteOrder, SubSeq(a, 1, 1)) < Index(ByteOrder, SubSeq(b, 1, 1))
    ELSE StrLess(SubSeq(a, 2, Len(a)), SubSeq(b, 2, Len(b)))

\* Postgres.tBuilder: the CREATE TABLE IF NOT EXISTS statement.
tBuilder(t) ==
    [name |-> t.Name, columns |-> [k \in 1..Len(t.Columns) |-> addColumn(t.Columns[k])],
     primaryKey |-> t.PrimaryKey]

\* The catalog after CREATE TABLE: the column rows, the primary-key index
\* <table>_pkey and one unique constraint index <table>_<column>_key for
\* each UNIQUE column.
createTable(b) ==
    [exists |-> TRUE,
     columns |-> [k \in 1..Len(b.columns) |-> catalogColumn(b.columns[k])],
     indexes |->
         (IF b.primaryKey = <<>> THEN {}
          ELSE {[name |-> b.name \o "_pkey", columns |-> b.primaryKey, primary |-> TRUE,
                 unique |-> TRUE, constraint |-> TRUE]})
         \cup {[name |-> b.name \o "_" \o b.columns[k].name \o "_key",
                columns |-> <<b.columns[k].name>>, primary |-> FALSE, unique |-> TRUE,
                constraint |-> TRUE] : k \in {k \in 1..Len(b.columns) : b.columns[k].unique}}]

\* The catalog after CREATE [UNIQUE] INDEX IF NOT EXISTS.
createIndex(cat, ib) ==
    IF \E x \in cat.indexes : x.name = ib.name THEN cat
    ELSE [cat EXCEPT !.indexes = @ \cup {[name |-> ib.name, columns |-> ib.columns,
                                          primary |-> FALSE, unique |-> ib.unique,
                                          constraint |-> FALSE]}]

RECURSIVE createIndexes(_, _, _)
createIndexes(cat, idxs, table) ==
    IF idxs = <<>> THEN cat
    ELSE createIndexes(createIndex(cat, addIndex(Head(idxs), table)), Tail(idxs), table)

RECURSIVE indexRows(_)
\* The rows of indexesQuery: ORDER BY index_name, seq_in_index.
indexRows(S) ==
    IF S = {} THEN <<>>
    ELSE LET x == CHOOSE x \in S : \A y \in S \ {x} : StrLess(x.name, y.name)
         IN  [k \in 1..Len(x.columns) |->
                  [name |-> x.name, column |-> x.columns[k], primary |-> x.primary,
                   unique |-> x.unique, seqindex |-> k]]
                 \o indexRows(S \ {x})

(***************************************************************************)
(* table: the live table read back from the catalog                        *)
(***************************************************************************)
\* Table.column
hasColumn(t, name) == \E k \in 1..Len(t.Columns) : t.Columns[k].Name = name

columnAt(t, name) == CHOOSE k \in 1..Len(t.Columns) : t.Columns[k].Name = name

RECURSIVE scanColumns(_, _)
\* The rows.Next loop of table: stops at the first scanColumn error.
scanColumns(t, rows) ==
    IF rows = <<>> THEN [err |-> "", t |-> t]
    ELSE LET r == scanColumn(Head(rows))
         IN  IF r.err # "" THEN [err |-> r.err, t |-> t]
             ELSE scanColumns([t EXCEPT !.Columns = Append(@, r.c)], Tail(rows))

RECURSIVE promotePrimary(_, _)
\* case idx.primary: every column of the index joins t.PrimaryKey.
promotePrimary(t, names) ==
    IF names = <<>> THEN [err |-> "", t |-> t]
    ELSE IF ~hasColumn(t, Head(names)) THEN [err |-> "index column was not found", t |-> t]
    ELSE promotePrimary([t EXCEPT !.Columns[columnAt(t, Head(names))].Key = "PRI",
                                  !.PrimaryKey = Append(@, Head(names))], Tail(names))

RECURSIVE populate(_, _)
\* The loop of table over the indexes: primary-key and unique promotion.
populate(t, idxs) ==
    IF idxs = <<>> THEN [err |-> "", t |-> t]
    ELSE LET idx == Head(idxs)
         IN  IF idx.primary
             THEN LET r == promotePrimary(t, idx.columns)
                  IN  IF r.err # "" THEN r ELSE populate(r.t, Tail(idxs))
             ELSE IF idx.Unique /\ Len(idx.columns) = 1
             THEN IF ~hasColumn(t, idx.columns[1])
                  THEN [err |-> "index column was not found", t |-> t]
                  ELSE populate([t EXCEPT !.Columns[columnAt(t, idx.columns[1])].Key = "UNI",
                                          !.Columns[columnAt(t, idx.columns[1])].Unique = TRUE,
                                          !.Indexes = Append(@, idx)], Tail(idxs))
             ELSE populate([t EXCEPT !.Indexes = Append(@, idx)], Tail(idxs))

\* Postgres.table, given the catalog it queries.
table(name, cat) ==
    LET r == scanColumns([NoTable EXCEPT !.Name = name], cat.columns)
    IN  IF r.err # "" THEN r ELSE populate(r.t, indexes(name, indexRows(cat.indexes)))

(***************************************************************************)
(* init: the server version check                                          *)
(***************************************************************************)
RECURSIVE splitDots(_)
\* strings.Split(v, ".")
splitDots(v) ==
    IF Index(v, ".") = -1 THEN <<v>>
    ELSE <<SubSeq(v, 1, Index(v, "."))>> \o splitDots(SubSeq(v, Index(v, ".") + 2, Len(v)))

\* parseVersion: the major, minor and patch numbers of a dotted version.
parseVersion(v) ==
    LET parts == splitDots(v)
        part(k) == IF k <= Len(parts) /\ AllDigits(parts[k]) THEN Atoi(parts[k]) ELSE 0
    IN  [ok |-> \A k \in 1..Len(parts) : k > 3 \/ AllDigits(parts[k]),
         major |-> part(1), minor |-> part(2), patch |-> part(3)]

\* compareVersions returns 0 if v1 = v2, 1 if v1 > v2, or -1 if v1 < v2.
compareVersions(v1, v2) ==
    LET a == parseVersion(v1)
        b == parseVersion(v2)
    IN  CASE ~a.ok /\ ~b.ok -> 0
          [] ~a.ok -> -1
          [] ~b.ok -> 1
          [] a.major # b.major -> IF a.major < b.major THEN -1 ELSE 1
          [] a.minor # b.minor -> IF a.minor < b.minor THEN -1 ELSE 1
          [] a.patch # b.patch -> IF a.patch < b.patch THEN -1 ELSE 1
          [] OTHER -> 0

\* Postgres.init: the error returned ("" for nil) and the version stored, for
\* what the connection answers to SHOW server_version_num.
init(answer) ==
    LET version == answer.version
        dotted  == SubSeq(version, 1, 2) \o "." \o SubSeq(version, 3, 4) \o "."
                       \o SubSeq(version, 5, Len(version))
    IN  CASE answer.query = "error" -> [err |-> "querying server version", version |-> ""]
          [] answer.rows = "error" -> [err |-> "rows error", version |-> ""]
          [] answer.rows = "none" ->
                 [err |-> "server_version_num variable was not found", version |-> ""]
          [] answer.scan = "error" -> [err |-> "scanning version", version |-> ""]
          [] Len(version) < 6 -> [err |-> "malformed version", version |-> ""]
          [] compareVersions(dotted, "10.0.0") = -1 ->
                 [err |-> "unsupported postgres version", version |-> dotted]
          [] OTHER -> [err |-> "", version |-> dotted]

(***************************************************************************)
(* setRange, dropIndex: the statements executed on the connection          *)
(***************************************************************************)
\* Postgres.setRange: the statement handed to tx.Exec.
setRange(t, value0) ==
    LET value == IF value0 = 0 THEN 1 ELSE value0
        pk    == IF Len(t.PrimaryKey) = 1 THEN t.PrimaryKey[1] ELSE "id"
    IN  <<[op |-> "Exec", stmt |-> "RESTART", table |-> t.Name, name |-> pk,
           text |-> "ALTER TABLE " \o t.Name \o " ALTER COLUMN " \o pk
                        \o " RESTART WITH " \o Itoa(value)]>>

\* The name dropIndex looks up and drops.
dropIndexName(idx, tbl) ==
    IF ~HasPrefix(idx.Name, tbl \o "_") /\ ~hasUniqueName(idx)
    THEN tbl \o "_" \o idx.Name ELSE idx.Name

\* dropIndex that issues DROP INDEX whatever the constraint query answers.
dropIndexUnchecked(idx, tbl, exists) ==
    LET name  == dropIndexName(idx, tbl)
        query == [op |-> "Query", stmt |-> "COUNT UNIQUE CONSTRAINT", table |-> tbl,
                  name |-> name, text |-> ""]
    IN  IF exists = "error" THEN <<query>>
        ELSE <<query, [op |-> "Exec", stmt |-> "DROP INDEX", table |-> tbl, name |-> name,
                       text |-> "DROP INDEX " \o name]>>

\* Postgres.dropIndex: what it issues on the connection, for the answer
\* ("yes", "no", "error") of the constraint query.
dropIndex(idx, tbl, exists) ==
    LET name  == dropIndexName(idx, tbl)
        query == [op |-> "Query", stmt |-> "COUNT UNIQUE CONSTRAINT", table |-> tbl,
                  name |-> name, text |-> ""]
    IN  IF exists = "error" THEN <<query>>
        ELSE IF exists = "yes"
        THEN <<query, [op |-> "Exec", stmt |-> "DROP CONSTRAINT", table |-> tbl,
                       name |-> name,
                       text |-> "ALTER TABLE " \o tbl \o " DROP CONSTRAINT " \o name]>>
        ELSE <<query, [op |-> "Exec", stmt |-> "DROP INDEX", table |-> tbl, name |-> name,
                       text |-> "DROP INDEX " \o name]>>

(***************************************************************************)
(* foreignKeys: the constraint rows of fkQuery grouped into ForeignKeys     *)
(***************************************************************************)
\* &ForeignKey{}: Columns and RefColumns point to columns of the table and of
\* RefTable; a column is identified by its name, a table by its name.
NewForeignKey(symbol, column, refTable, refColumn) ==
    [Symbol |-> symbol, Columns |-> <<column>>, RefTable |-> refTable,
     RefColumns |-> <<refColumn>>]

\* ForeignKey.column, ForeignKey.refColumn: whether the list holds the name.
fkHas(names, name) == \E k \in 1..Len(names) : names[k] = name

\* tableLookup[name]: the table stored under the name (the last of the list
\* with that name), 0 for nil.
tableLookup(tables, name) ==
    LET at == {k \in 1..Len(tables) : tables[k].Name = name}
    IN  IF at = {} THEN 0 ELSE CHOOSE k \in at : \A j \in at : k >= j

\* One iteration of the rows.Next loop of foreignKeys for table t: fks are
\* the foreign keys added to t so far (tableFksLookup holds the same objects,
\* keyed by Symbol).
foreignKeysStep(tables, t, fks, row) ==
    LET ref == tableLookup(tables, row.refTableName)
        at  == {k \in 1..Len(fks) : fks[k].Symbol = row.constraintName}
    IN  IF ref = 0 THEN [err |-> "could not find table", fks |-> fks]
        ELSE IF ~hasColumn(t, row.columnName)
        THEN [err |-> "could not find column", fks |-> fks]
        ELSE IF ~hasColumn(tables[ref], row.refColumnName)
        THEN [err |-> "could not find ref column", fks |-> fks]
        ELSE IF at # {}
        THEN LET k  == CHOOSE k \in at : TRUE
                 f1 == IF fkHas(fks[k].Columns, row.columnName) THEN fks[k]
                       ELSE [fks[k] EXCEPT !.Columns = Append(@, row.columnName)]
                 f2 == IF fkHas(f1.RefColumns, row.refColumnName) THEN f1
                       ELSE [f1 EXCEPT !.RefColumns = Append(@, row.refColumnName)]
             IN  [err |-> "", fks |-> [fks EXCEPT ![k] = f2]]
        ELSE [err |-> "",
              fks |-> Append(fks, NewForeignKey(row.constraintName, row.columnName,
                                                tables[ref].Name, row.refColumnName))]

RECURSIVE foreignKeysRows(_, _, _, _)
\* The rows.Next loop of foreignKeys: stops at the first error.
foreignKeysRows(tables, t, fks, rows) ==
    IF rows = <<>> THEN [err |-> "", fks |-> fks]
    ELSE LET r == foreignKeysStep(tables, t, fks, Head(rows))
         IN  IF r.err # "" THEN r ELSE foreignKeysRows(tables, t, r.fks, Tail(rows))

\* The body of the loop over the tables, for what the connection answers to
\* the table's query: the rows it delivers and how the delivery ends ("" for
\* the end of the rows, "scan" for a row that fails to scan, "iter" for an
\* iteration error reported by rows.Err).
foreignKeysTable(tables, t, answer) ==
    IF answer.query = "error" THEN [err |-> "querying foreign keys", fks |-> <<>>]
    ELSE LET r == foreignKeysRows(tables, t, <<>>, answer.rows)
         IN  IF r.err # "" THEN r
             ELSE IF answer.end = "scan" THEN [err |-> "scanning index description", fks |-> r.fks]
             ELSE IF answer.end = "iter" THEN [err |-> "rows error", fks |-> r.fks]
             ELSE r

RECURSIVE foreignKeysLoop(_, _, _, _)
foreignKeysLoop(tables, answers, i, out) ==
    IF i > Len(tables) THEN [err |-> "", fks |-> out]
    ELSE LET r == foreignKeysTable(tables, tables[i], answers[i])
         IN  IF r.err # "" THEN [err |-> r.err, fks |-> Append(out, r.fks)]
             ELSE foreignKeysLoop(tables, answers, i + 1, Append(out, r.fks))

\* Postgres.foreignKeys: the error returned ("" for nil) and the foreign keys
\* added to each table (those of the tables reached), given the answers of
\* the connection to the query of each table.
foreignKeys(tables, answers) == foreignKeysLoop(tables, answers, 1, <<>>)

(***************************************************************************)
(* Result cursors: tx.Query, rows.Next, rows.Scan, rows.Err, rows.Close     *)
(* and the deferred rows.Close of init, table, indexes and foreignKeys      *)
(***************************************************************************)
\* The cursor a successful tx.Query leaves in rows: open, with n rows to
\* deliver. closes counts the calls of Close on it.
NewCursor(n) == [open |-> TRUE, drained |-> FALSE, failed |-> FALSE, left |-> n, closes |-> 0]

\* rows.Close: releases the cursor and the rows it has not delivered; on a
\* closed cursor it changes nothing.
rowsClose(c) == [c EXCEPT !.open = FALSE, !.left = 0, !.closes = @ + 1]

\* A return that runs none of the deferred calls.
runDeferredLeaked(cs, own) == cs

RECURSIVE runDeferred(_, _)
\* The deferred rows.Close calls of a returning function, last one first.
runDeferred(cs, own) ==
    IF own = <<>> THEN cs
    ELSE runDeferred([cs EXCEPT ![own[Len(own)]] = rowsClose(@)], SubSeq(own, 1, Len(own) - 1))

\* The frame of a call: fn is the function, at its position, cur the cursor
\* of its rows variable, own the cursors of its deferred Close calls, i and n
\* the position and length of the loop of foreignKeys over the tables, err
\* the error it is about to return.
Frame(fn, n) ==
    [fn |-> fn, at |-> IF fn = "foreignKeys" /\ n = 0 THEN "return" ELSE "query",
     cur |-> 0, own |-> <<>>, i |-> 1, n |-> n, err |-> ""]

\* The frame on top of the stack.
top == stack[Len(stack)]

\* The stack with its top frame replaced.
setTop(f) == [stack EXCEPT ![Len(stack)] = f]

(***************************************************************************)
(* Bounds and input domains                                                *)
(***************************************************************************)
MaxMajor == 12
MaxMinor == 6
MaxPatch == 5
MaxTables == 3
MaxPK == 2
MaxPrecision == 3
MaxScale == 2
MaxVarchar == 2
MaxArrayBound == 2
MaxDefaultLen == 4

\* server_version_num: major*10000 + minor*100 + patch before version 10,
\* major*10000 + minor from version 10 on.
ServerVersions ==
    {Itoa(major * 10000 + minor * 100 + patch) :
         major \in 8..9, minor \in 0..MaxMinor, patch \in 0..MaxPatch}
        \cup {Itoa(major * 10000 + minor) : major \in 10..MaxMajor, minor \in 0..MaxMinor}

\* What the connection may answer to the version query.
Answers(versions) ==
    {[query |-> "ok", rows |-> "row", scan |-> "ok", version |-> v] : v \in versions}
        \cup {[query |-> "error", rows |-> "none", scan |-> "ok", version |-> ""],
              [query |-> "ok", rows |-> "error", scan |-> "ok", version |-> ""],
              [query |-> "ok", rows |-> "none", scan |-> "ok", version |-> ""],
              [query |-> "ok", rows |-> "row", scan |-> "error", version |-> ""]}

ColumnNames == {"id", "a", "b"}

\* The primary keys of the tables handed to setRange: up to MaxPK distinct columns.
PrimaryKeys ==
    UNION {{pk \in [1..n -> ColumnNames] : \A i, j \in 1..n : i # j => pk[i] # pk[j]} :
               n \in 0..MaxPK}

RangeTables ==
    {[NoTable EXCEPT !.Name = n, !.PrimaryKey = pk] : n \in {"users", "groups"},
                                                        pk \in PrimaryKeys}

\* The universal-id offsets: the table's position in the list, shifted left
\* (by 16 bits here, 32 in the migration, which passes TLC's integers).
RangeValues == {k * 65536 : k \in 0..MaxTables}

\* A target column of the given type, with a type override ("" for none).
Col(name, type, size, schemaType) ==
    [NewColumn(name) EXCEPT !.Type = type, !.Size = size, !.SchemaType = schemaType]

FixedPoint ==
    {kind \o "(" \o Itoa(p) \o "," \o Itoa(sc) \o ")" :
         kind \in {"numeric", "decimal"}, p \in 1..MaxPrecision, sc \in 0..MaxScale}

ArrayTypes ==
    {elem \o "[" \o bound \o "]" :
         elem \in {"int", "text"}, bound \in {""} \cup {Itoa(n) : n \in 1..MaxArrayBound}}

\* The target columns of the type-mapping runs.
TargetColumns ==
    {Col("a", t, 0, "") : t \in FieldTypes}
        \cup {Col("a", "string", maxCharSize + 1, "")}
        \cup {Col("a", "float64", 0, st) : st \in FixedPoint \cup {"numeric"}}
        \cup {Col("a", "string", 0, "varchar(" \o Itoa(n) \o ")") : n \in 1..MaxVarchar}
        \cup {Col("a", "other", 0, st) : st \in ArrayTypes \cup {"inet", "interval"}}
        \cup {Col("a", "time", 0, st) : st \in {"date", "timestamp"}}

IndexNames ==
    {prefix \o body \o suffix : prefix \in {"", "t_", "u_"},
                                body \in {"a", "b", "a_b", "k"},
                                suffix \in {"", "_key"}}

TargetIndexes ==
    {NewIndex(n, u, cols) : n \in IndexNames, u \in BOOLEAN,
                            cols \in {<<"a">>, <<"b">>, <<"a", "b">>}}

\* One table per target column, and one per target index over columns a, b.
SchemaTables ==
    {[NoTable EXCEPT !.Name = "t", !.Columns = <<c>>] : c \in TargetColumns}
        \cup {[NoTable EXCEPT !.Name = n,
                              !.Columns = <<Col("id", "int64", 0, ""), Col("a", "string", 0, ""),
                                            Col("b", "string", 0, "")>>,
                              !.PrimaryKey = <<"id">>,
                              !.Indexes = <<i>>] : n \in {"t", "u"}, i \in TargetIndexes}

DefaultAlphabet == {"a", "1", "'", ":", "(", ")"}

RECURSIVE Strings(_)
\* The strings over DefaultAlphabet of at most n characters.
Strings(n) ==
    IF n = 0 THEN {""}
    ELSE LET S == Strings(n - 1) IN S \cup {s \o c : s \in S, c \in DefaultAlphabet}

\* The unquoted expressions the server accepts as a DEFAULT: a number, or a
\* call of a named function.
validExpr(v) ==
    \/ AllDigits(v)
    \/ /\ Index(v, "(") > 0
       /\ Index(v, ")") = Len(v) - 1
       /\ Index(v, "'") = -1 /\ Index(v, ":") = -1
       /\ LastIndex(v, "(") = Index(v, "(")
       /\ \A k \in 0..(Index(v, "(") - 1) : isAlpha(Char(v, k), k > 0)

\* The target columns of the default runs: any text is a default of a quoted
\* type; the unquoted types take the expressions the server accepts.
DefaultColumns ==
    {[Col("a", t, 0, "") EXCEPT !.Default = StringDefault(v)] :
         t \in {"string", "enum"}, v \in Strings(MaxDefaultLen)}
        \cup {[Col("a", t, 0, "") EXCEPT !.Default = StringDefault(v)] :
                  t \in {"time", "uuid", "int64", "float64"},
                  v \in {v \in Strings(MaxDefaultLen) : validExpr(v)}}
        \cup {[Col("a", "bool", 0, "") EXCEPT !.Default = BoolDefault(b)] : b \in BOOLEAN}

DefaultTables == {[NoTable EXCEPT !.Name = "t", !.Columns = <<c>>] : c \in DefaultColumns}

MaxFkRows == 2
MaxRows == 2
MaxLoaded == 2

\* A row of fkQuery (the schema columns, which foreignKeys does not read, left out).
FkRow(constraint, column, refTable, refColumn) ==
    [constraintName |-> constraint, columnName |-> column, refTableName |-> refTable,
     refColumnName |-> refColumn]

\* The rows a connection may deliver for table t: constraints fk1, fk2 over
\* the columns a, b of t and a column z it has not, referencing the columns
\* x, y of table r, a column w it has not, the column a of t itself, or a
\* table q not in the list.
FkRows ==
    {FkRow(n, c, ref[1], ref[2]) :
         n \in {"fk1", "fk2"}, c \in {"a", "b", "z"},
         ref \in {<<"r", "x">>, <<"r", "y">>, <<"r", "w">>, <<"t", "a">>, <<"q", "x">>}}

\* Any sequence of at most MaxFkRows rows.
FkRowSeqs == UNION {[1..n -> FkRows] : n \in 0..MaxFkRows}

\* fkQuery joins the constraint's key columns (key_column_usage) with its
\* referenced columns (constraint_column_usage) on the constraint name alone:
\* every local column meets every referenced column, ordered by the position
\* of the local column, the referenced columns in the given order.
fkJoin(name, columns, refTable, refColumns) ==
    [k \in 1..(Len(columns) * Len(refColumns)) |->
         FkRow(name, columns[((k - 1) \div Len(refColumns)) + 1], refTable,
               refColumns[((k - 1) % Len(refColumns)) + 1])]

\* The rows of the composite constraint fk1 of t: (a, b) REFERENCES r (x, y).
FkJoinRows == {fkJoin("fk1", <<"a", "b">>, "r", refs) : refs \in {<<"x", "y">>, <<"y", "x">>}}

\* The tables handed to foreignKeys, loaded by table().
FkTables ==
    <<[NoTable EXCEPT !.Name = "t",
                      !.Columns = <<Col("a", "int64", 0, ""), Col("b", "int64", 0, "")>>],
      [NoTable EXCEPT !.Name = "r",
                      !.Columns = <<Col("x", "int64", 0, ""), Col("y", "int64", 0, "")>>,
                      !.PrimaryKey = <<"x">>]>>

\* What the connection answers to the queries of t and of r: the delivery
\* of t's rows ends cleanly or with an error, and r has no foreign key or one
\* to t; either query may fail.
FkAnswers ==
    {<<[query |-> "ok", rows |-> rows, end |-> e],
       [query |-> "ok", rows |-> back, end |-> ""]>> :
         rows \in {rows \in FkRowSeqs : Len(rows) < MaxFkRows}, e \in {"", "scan", "iter"},
         back \in {<<>>, <<FkRow("fk1", "x", "t", "a")>>}}
        \cup {<<[query |-> "ok", rows |-> rows, end |-> ""],
                [query |-> "ok", rows |-> <<>>, end |-> ""]>> :
                  rows \in FkRowSeqs \cup FkJoinRows}
        \cup {<<[query |-> "error", rows |-> <<>>, end |-> ""],
                [query |-> "ok", rows |-> <<>>, end |-> ""]>>,
              <<[query |-> "ok", rows |-> <<>>, end |-> ""],
                [query |-> "error", rows |-> <<>>, end |-> ""]>>}

\* Tables with two indexes over the columns a, b: a name with or without the
\* table prefix, derived from a column or custom.
PairIndexes ==
    {NewIndex(n, u, cols) : n \in {"k", "t_k", "a", "t_a"}, u \in BOOLEAN,
                            cols \in {<<"a">>, <<"b">>, <<"a", "b">>, <<"b", "a">>}}

IndexPairTables ==
    {[NoTable EXCEPT !.Name = "t",
                     !.Columns = <<Col("id", "int64", 0, ""), Col("a", "string", 0, ""),
                                   Col("b", "string", 0, "")>>,
                     !.PrimaryKey = <<"id">>,
                     !.Indexes = <<i, j>>] : i, j \in PairIndexes}

(***************************************************************************)
(* The migration run                                                       *)
(***************************************************************************)
Init ==
    /\ d = [version |-> ""]
    /\ phase = "new"
    /\ target = NoTable
    /\ db = NoCatalog
    /\ live = NoTable
    /\ tx = <<>>
    /\ ret = [op |-> "none", err |-> ""]
    /\ stack = <<>>
    /\ cursors = <<>>
    /\ loaded = 0

\* Migrate.Create calls init first and stops the run when it fails.
ServerInit(versions) ==
    /\ phase = "new"
    /\ \E answer \in Answers(versions) :
           LET r == init(answer)
           IN  /\ d' = [d EXCEPT !.version = r.version]
               /\ phase' = IF r.err = "" THEN "inited" ELSE "failed"
               /\ tx' = <<[op |-> "Query", stmt |-> "SHOW server_version_num", table |-> "",
                           name |-> "", text |-> "SHOW server_version_num"]>>
               /\ ret' = [op |-> "init", err |-> r.err, answer |-> answer]
    /\ UNCHANGED <<target, db, live>>
    /\ UNCHANGED <<stack, cursors, loaded>>

\* The table is absent: CREATE TABLE from tBuilder, then one CREATE INDEX
\* from addIndex for each index of the target.
Create(tables) ==
    /\ phase = "inited"
    /\ ~db.exists
    /\ \E t \in tables :
           LET b == tBuilder(t)
           IN  IF \A k \in 1..Len(b.columns) : knownType(b.columns[k].type)
               THEN /\ db' = createIndexes(createTable(b), t.Indexes, t.Name)
                    /\ target' = t
                    /\ tx' = <<[op |-> "Exec", stmt |-> "CREATE TABLE", table |-> t.Name,
                                name |-> t.Name, text |-> ""]>>
                               \o [k \in 1..Len(t.Indexes) |->
                                       [op |-> "Exec", stmt |-> "CREATE INDEX",
                                        table |-> t.Name,
                                        name |-> addIndex(t.Indexes[k], t.Name).name,
                                        text |-> ""]]
                    /\ ret' = [op |-> "create", err |-> ""]
               ELSE /\ tx' = <<[op |-> "Exec", stmt |-> "CREATE TABLE", table |-> t.Name,
                                name |-> t.Name, text |-> ""]>>
                    /\ ret' = [op |-> "create", err |-> "type does not exist"]
                    /\ UNCHANGED <<db, target>>
    /\ UNCHANGED <<d, phase, live>>
    /\ UNCHANGED <<stack, cursors, loaded>>

\* The table exists: table() reads it back from the catalog.
Table ==
    /\ phase = "inited"
    /\ db.exists
    /\ live = NoTable
    /\ LET r == table(target.Name, db)
       IN  /\ live' = IF r.err = "" THEN r.t ELSE NoTable
           /\ ret' = [op |-> "table", err |-> r.err]
    /\ tx' = <<[op |-> "Query", stmt |-> "SELECT columns", table |-> target.Name,
                name |-> "", text |-> ""],
               [op |-> "Query", stmt |-> "SELECT indexes", table |-> target.Name,
                name |-> "", text |-> ""]>>
    /\ UNCHANGED <<d, phase, target, db>>
    /\ UNCHANGED <<stack, cursors, loaded>>

\* A later run whose target column differs: the change-set asks
\* needsConversion for the live column and the new target column.
ChangeSet(columns) ==
    /\ phase = "inited"
    /\ live # NoTable
    /\ \E new \in columns :
           ret' = [op |-> "needsConversion", err |-> "", old |-> live.Columns[1],
                   new |-> new, val |-> needsConversion(live.Columns[1], new)]
    /\ tx' = <<>>
    /\ phase' = "done"
    /\ UNCHANGED <<d, target, db, live>>
    /\ UNCHANGED <<stack, cursors, loaded>>

\* The universal-id option: setRange for a table of the list. The run is
\* followed up to its first statement-executing step.
SetRange ==
    /\ phase = "inited"
    /\ \E t \in RangeTables, value \in RangeValues, exec \in {"", "exec error"} :
           /\ tx' = setRange(t, value)
           /\ ret' = [op |-> "setRange", err |-> exec, t |-> t, value |-> value]
    /\ phase' = "done"
    /\ UNCHANGED <<d, target, db, live>>
    /\ UNCHANGED <<stack, cursors, loaded>>

\* The drop-index option: dropIndex for an index of the live table.
DropIndex ==
    /\ phase = "inited"
    /\ \E idx \in TargetIndexes, tbl \in {"t", "u"}, exists \in {"yes", "no", "error"},
          exec \in {"", "exec error"} :
           /\ tx' = dropIndex(idx, tbl, exists)
           /\ ret' = [op |-> "dropIndex",
                      err |-> IF exists = "error" THEN "reading schema information" ELSE exec,
                      idx |-> idx, tbl |-> tbl, exists |-> exists]
    /\ phase' = "done"
    /\ UNCHANGED <<d, target, db, live>>
    /\ UNCHANGED <<stack, cursors, loaded>>

\* The second pass: foreignKeys over the loaded tables, one query per table
\* reached.
ForeignKeys ==
    /\ phase = "inited"
    /\ \E answers \in FkAnswers :
           LET r == foreignKeys(FkTables, answers)
           IN  /\ ret' = [op |-> "foreignKeys", err |-> r.err, tables |-> FkTables,
                          answers |-> answers, fks |-> r.fks]
               /\ tx' = [k \in 1..Len(r.fks) |->
                             [op |-> "Query", stmt |-> "SELECT foreign keys",
                              table |-> FkTables[k].Name, name |-> "", text |-> ""]]
    /\ phase' = "done"
    /\ UNCHANGED <<d, target, db, live>>
    /\ UNCHANGED <<stack, cursors, loaded>>

\* The migration calls init, then table for each table, then foreignKeys
\* over the tables loaded. The cursors closed by the previous call are gone
\* with its rows variables.
Call ==
    /\ stack = <<>>
    /\ \E fn \in {"init", "table", "foreignKeys"} :
           /\ CASE fn = "init" -> phase = "new"
                [] fn = "table" -> phase = "inited" /\ loaded < MaxLoaded
                [] OTHER -> phase = "inited"
           /\ stack' = <<Frame(fn, loaded)>>
    /\ cursors' = SelectSeq(cursors, LAMBDA c : c.open)
    /\ tx' = <<>>
    /\ UNCHANGED <<d, phase, target, db, live, ret, loaded>>

\* tx.Query: an error returns at once, before any defer; success leaves a
\* cursor in rows and defers its Close.
Query ==
    /\ stack # <<>> /\ top.at = "query"
    /\ tx' = Append(tx, [op |-> "Query", stmt |-> top.fn, table |-> "", name |-> "",
                         text |-> ""])
    /\ \/ /\ stack' = setTop([top EXCEPT !.at = "return", !.err = "querying"])
          /\ UNCHANGED cursors
       \/ \E n \in 0..MaxRows :
              /\ cursors' = Append(cursors, NewCursor(n))
              /\ stack' = setTop([top EXCEPT !.at = "next", !.cur = Len(cursors) + 1,
                                             !.own = Append(@, Len(cursors) + 1)])
    /\ UNCHANGED <<d, phase, target, db, live, ret, loaded>>

\* rows.Next: delivers a row, or reports the end of the rows, or fails.
RowsNext ==
    /\ stack # <<>> /\ top.at = "next"
    /\ \/ /\ cursors[top.cur].left > 0
          /\ cursors' = [cursors EXCEPT ![top.cur].left = @ - 1]
          /\ stack' = setTop([top EXCEPT !.at = "scan"])
       \/ /\ cursors[top.cur].left = 0
          /\ cursors' = [cursors EXCEPT ![top.cur].drained = TRUE]
          /\ stack' = setTop([top EXCEPT !.at = "err"])
       \/ /\ cursors' = [cursors EXCEPT ![top.cur].failed = TRUE]
          /\ stack' = setTop([top EXCEPT !.at = "err"])
    /\ UNCHANGED <<d, phase, target, db, live, tx, ret, loaded>>

\* rows.Scan and what the function does with the row: a scan error returns;
\* so does a row the function rejects (init: the version checks; table: the
\* errors of scanColumn; foreignKeys: a table or column not found); else the
\* loop goes on (init returns nil).
RowsScan ==
    /\ stack # <<>> /\ top.at = "scan"
    /\ \E out \in {"ok", "scan", "reject"} :
           /\ out = "reject" => top.fn # "indexes"
           /\ stack' = setTop(
                  IF out = "ok"
                  THEN [top EXCEPT !.at = IF top.fn = "init" THEN "return" ELSE "next"]
                  ELSE [top EXCEPT !.at = "return",
                                   !.err = IF out = "scan" THEN "scanning" ELSE "rejected"])
    /\ UNCHANGED <<d, phase, target, db, live, tx, ret, cursors, loaded>>

\* rows.Err after Next returned false: an iteration error returns; else init
\* returns its not-found error, table goes on to close the cursor, indexes
\* returns, foreignKeys goes on to the next table or returns.
RowsErr ==
    /\ stack # <<>> /\ top.at = "err"
    /\ stack' = setTop(
           IF cursors[top.cur].failed THEN [top EXCEPT !.at = "return", !.err = "rows error"]
           ELSE CASE top.fn = "init" ->
                         [top EXCEPT !.at = "return",
                                     !.err = "server_version_num variable was not found"]
                  [] top.fn = "table" -> [top EXCEPT !.at = "close"]
                  [] top.fn = "indexes" -> [top EXCEPT !.at = "return"]
                  [] OTHER -> IF top.i < top.n
                              THEN [top EXCEPT !.at = "query", !.i = @ + 1]
                              ELSE [top EXCEPT !.at = "return"])
    /\ UNCHANGED <<d, phase, target, db, live, tx, ret, cursors, loaded>>

\* The rows.Close of table before it calls indexes: its error returns.
RowsClose ==
    /\ stack # <<>> /\ top.at = "close"
    /\ cursors' = [cursors EXCEPT ![top.cur] = rowsClose(@)]
    /\ \/ stack' = setTop([top EXCEPT !.at = "return", !.err = "closing rows"])
       \/ stack' = Append(setTop([top EXCEPT !.at = "indexes"]), Frame("indexes", 0))
    /\ UNCHANGED <<d, phase, target, db, live, tx, ret, loaded>>

\* The loop of table over the indexes: an index column not found returns an error.
Populate ==
    /\ stack # <<>> /\ top.at = "populate"
    /\ \E err \in {"", "index column was not found"} :
           stack' = setTop([top EXCEPT !.at = "return", !.err = err])
    /\ UNCHANGED <<d, phase, target, db, live, tx, ret, cursors, loaded>>

\* A return: the deferred Close calls run, their results dropped, and the
\* error goes to the caller (table, for indexes) or ends the call.
Return ==
    /\ stack # <<>> /\ top.at = "return"
    /\ cursors' = runDeferred(cursors, top.own)
    /\ IF Len(stack) > 1
       THEN /\ stack' = [SubSeq(stack, 1, Len(stack) - 1) EXCEPT
                             ![Len(stack) - 1] =
                                 IF top.err # "" THEN [@ EXCEPT !.at = "return", !.err = top.err]
                                 ELSE [@ EXCEPT !.at = "populate"]]
            /\ UNCHANGED <<phase, ret, loaded>>
       ELSE /\ stack' = <<>>
            /\ ret' = [op |-> top.fn, err |-> top.err]
            /\ phase' = IF top.err # "" THEN "failed"
                        ELSE IF top.fn = "foreignKeys" THEN "done" ELSE "inited"
            /\ loaded' = IF top.fn = "table" /\ top.err = "" THEN loaded + 1 ELSE loaded
    /\ UNCHANGED <<d, target, db, live, tx>>

\* The version check over the versions a server reports, then the
\* statement-executing steps of a run.
Next ==
    \/ ServerInit(ServerVersions)
    \/ SetRange
    \/ DropIndex

Spec == Init /\ [][Next]_vars

\* Create and read back the tables of the type-mapping and index domains.
NextSchema ==
    \/ ServerInit({"100005"})
    \/ Create(SchemaTables)
    \/ Table
    \/ ChangeSet(TargetColumns)

SpecSchema == Init /\ [][NextSchema]_vars

\* Create and read back the tables of the default domain.
NextDefault ==
    \/ ServerInit({"100005"})
    \/ Create(DefaultTables)
    \/ Table

SpecDefault == Init /\ [][NextDefault]_vars

\* Read the foreign keys of the loaded tables.
NextForeignKeys ==
    \/ ServerInit({"100005"})
    \/ ForeignKeys

SpecForeignKeys == Init /\ [][NextForeignKeys]_vars

\* The introspection calls of a run, statement by statement.
NextCursor ==
    \/ Call
    \/ Query
    \/ RowsNext
    \/ RowsScan
    \/ RowsErr
    \/ RowsClose
    \/ Populate
    \/ Return

SpecCursor == Init /\ [][NextCursor]_vars

\* Create and read back the tables with two indexes.
NextIndexes ==
    \/ ServerInit({"100005"})
    \/ Create(IndexPairTables)
    \/ Table

SpecIndexes == Init /\ [][NextIndexes]_vars

(***************************************************************************)
(* Properties                                                              *)
(***************************************************************************)
\* The target column of a live column, by name.
targetColumn(name) == target.Columns[columnAt(target, name)]

\* The semantic type a type is expected to come back as: itself, but for the
\* types that share a native type with a wider or signed one.
C3_Expected(t) ==
    CASE t \in {"int8", "uint8", "uint16"} -> "int16"
      [] t = "uint32" -> "int32"
      [] t \in {"int", "uint", "uint64"} -> "int64"
      [] t = "enum" -> "string"
      [] OTHER -> t

\* C3: a column with no type override, created with the native type cType
\* gives it and read back by scanColumn from the catalog's name of that type,
\* has its original semantic type, except that int8, uint8 and uint16 come
\* back as int16, uint32 as int32, int, uint and uint64 as int64, and enum
\* as string.
C3_TypeRoundTrip ==
    live # NoTable =>
        \A k \in 1..Len(live.Columns) :
            LET c == targetColumn(live.Columns[k].Name)
            IN  c.SchemaType = "" => live.Columns[k].Type = C3_Expected(c.Type)

\* A uint32 column with no override was created and read back as int32.
C3_Witness ==
    /\ live # NoTable
    /\ target.Columns[1].Type = "uint32" /\ target.Columns[1].SchemaType = ""
    /\ live.Columns[1].Type = "int32"

\* C10: dropIndex first asks whether a UNIQUE constraint of the index's name
\* exists; when that query fails it returns the error and executes nothing;
\* otherwise it executes exactly one statement on that name, DROP CONSTRAINT
\* if and only if the constraint exists and DROP INDEX if not.
C10_DropIndexOrder ==
    ret.op = "dropIndex" =>
        /\ Len(tx) >= 1
        /\ tx[1].op = "Query" /\ tx[1].stmt = "COUNT UNIQUE CONSTRAINT"
        /\ \A k \in 2..Len(tx) : tx[k].op = "Exec"
        /\ IF ret.exists = "error"
           THEN Len(tx) = 1 /\ ret.err # ""
           ELSE /\ Len(tx) = 2
                /\ tx[2].name = tx[1].name /\ tx[2].table = ret.tbl
                /\ tx[2].stmt \in {"DROP CONSTRAINT", "DROP INDEX"}
                /\ (tx[2].stmt = "DROP CONSTRAINT") <=> (ret.exists = "yes")

\* dropIndex found the index backing a UNIQUE constraint and dropped the constraint.
C10_Witness ==
    /\ ret.op = "dropIndex" /\ ret.exists = "yes"
    /\ Len(tx) = 2 /\ tx[2].stmt = "DROP CONSTRAINT"

\* C5: init succeeds exactly when the server reports a version at or above
\* 10.0.0; a reported version below major version 10 fails with the
\* unsupported-version error; and no migration step runs after a failed init.
C5_VersionFloor ==
    /\ (ret.op = "init" /\ ret.answer.version # "") =>
           /\ (ret.err = "") <=> (Atoi(ret.answer.version) >= 100000)
           /\ (Atoi(ret.answer.version) < 100000) =>
                  ret.err = "unsupported postgres version"
    /\ ret.op \in {"setRange", "dropIndex"} => compareVersions(d.version, "10.0.0") >= 0

\* C6: setRange executes a RESTART statement only for a table with exactly
\* one primary-key column, and on that column; for a composite or missing
\* primary key it executes none.
C6_RestartSinglePK ==
    ret.op = "setRange" =>
        IF Len(ret.t.PrimaryKey) = 1
        THEN /\ Len(tx) = 1
             /\ tx[1].stmt = "RESTART" /\ tx[1].name = ret.t.PrimaryKey[1]
        ELSE \A k \in 1..Len(tx) : tx[k].stmt # "RESTART"

\* C1: after a target table was created and read back, a second run finds
\* nothing to do: no live column needs conversion to its target column, and
\* every target index is among the live indexes under its logical name.
C1_SecondRunEmpty ==
    live # NoTable =>
        /\ \A k \in 1..Len(live.Columns) :
               ~needsConversion(live.Columns[k], targetColumn(live.Columns[k].Name))
        /\ \A k \in 1..Len(target.Indexes) :
               \E j \in 1..Len(live.Indexes) : live.Indexes[j].Name = target.Indexes[k].Name

\* C4: a column declared numeric(P,S) or decimal(P,S) is read back with the
\* same precision and scale: the live column resolves to the native type of
\* the target column and needs no conversion.
C4_FixedPointRoundTrip ==
    (live # NoTable /\ target.Columns[1].SchemaType \in FixedPoint) =>
        /\ cType(live.Columns[1]) = cType(target.Columns[1])
        /\ ~needsConversion(live.Columns[1], target.Columns[1])

\* The logical name the live side is to give a catalog index: the name
\* without the table prefix, unless that name is not the one derived from
\* the index's columns, and then the catalog name.
C8_LogicalName(tbl, name, cols) ==
    LET short == TrimPrefix(name, tbl \o "_")
    IN  IF short # name /\ hasUniqueName([Name |-> short, columns |-> cols, Columns |-> cols])
        THEN name ELSE short

\* C8: every index read by indexes has the table prefix of its catalog name
\* stripped, unless the stripped name is inconsistent with its columns, and
\* then keeps the catalog name; realname is the catalog name; so the index
\* created for a target index is read back under the target's logical name.
C8_LiveIndexNames ==
    (live # NoTable /\ Len(target.Indexes) > 0) =>
        /\ \A j \in 1..Len(live.Indexes) :
               /\ \E x \in db.indexes : x.name = live.Indexes[j].realname
               /\ live.Indexes[j].Name =
                      C8_LogicalName(live.Name, live.Indexes[j].realname,
                                     live.Indexes[j].columns)
        /\ \A k \in 1..Len(target.Indexes) :
               \E j \in 1..Len(live.Indexes) :
                   /\ live.Indexes[j].realname = addIndex(target.Indexes[k], target.Name).name
                   /\ live.Indexes[j].Name = target.Indexes[k].Name

\* The element type of the array type a target column declares, as udt_name reports it.
C9_ElementOf(native) == "_" \o udtName(SubSeq(native, 1, LastIndex(native, "[")))

\* C9: needsConversion is false exactly when the two columns resolve to the
\* same native type, or the live column is an array and the target an array
\* type of the same element type; for types that differ in family or in
\* element type it is true.
C9_ConversionFamilies ==
    ret.op = "needsConversion" =>
        (~ret.val) <=>
            \/ cType(ret.old) = cType(ret.new)
            \/ /\ cType(ret.old) = "ARRAY"
               /\ arrayType(cType(ret.new))
               /\ ret.old.typ = C9_ElementOf(cType(ret.new))

\* C2: a string-typed column with the string default v is created with the
\* clause DEFAULT 'v', every quote of v doubled, and read back from the
\* catalog's rendering of that literal with the default v, whatever v holds.
C2_DefaultRoundTrip ==
    (live # NoTable /\ target.Columns[1].Type = "string"
         /\ target.Columns[1].Default.kind = "string") =>
        /\ addColumn(target.Columns[1]).default
               = "DEFAULT '" \o ReplaceAll(target.Columns[1].Default.s, "'", "''") \o "'"
        /\ live.Columns[1].Default = target.Columns[1].Default

\* An identifier (a letter or underscore, then letters, digits, underscores)
\* immediately followed by a parenthesized list that ends the value.
C7_CallShape(v) ==
    /\ Index(v, "(") > 0
    /\ Char(v, Len(v) - 1) = ")"
    /\ \A k \in 0..(Index(v, "(") - 1) : isAlpha(Char(v, k), k > 0)

\* C7: a default of call-expression shape is written verbatim and unquoted
\* for every column type and read back with the Default unset; a value not
\* of that shape is not taken for a call expression.
C7_CallExpressions ==
    (live # NoTable /\ target.Columns[1].Default.kind = "string") =>
        LET v == target.Columns[1].Default.s
        IN  /\ C7_CallShape(v) =>
                   /\ addColumn(target.Columns[1]).default = "DEFAULT " \o v
                   /\ live.Columns[1].Default = NoDefault
            /\ ~C7_CallShape(v) => ~callExpr(v)

\* The rows delivered for table i that carry the constraint name.
C11_RowsOf(i, symbol) ==
    SelectSeq(ret.answers[i].rows, LAMBDA row : row.constraintName = symbol)

\* C11: after foreignKeys returns without error, each table has one
\* ForeignKey for each constraint name among its rows; the ForeignKey's
\* Columns and RefColumns have the same length, every positional pair of them
\* is the (local column, referenced column) pair of a row of that constraint,
\* and every row of the constraint has its columns in the lists; RefTable is
\* a table of the list, Columns are columns of the table and RefColumns of
\* RefTable; and no row names a table or column that is not found.
C11_ForeignKeyGroups ==
    (ret.op = "foreignKeys" /\ ret.err = "") =>
        \A i \in 1..Len(ret.tables) :
            LET fks == ret.fks[i]
                rows == ret.answers[i].rows
            IN  /\ \A j, k \in 1..Len(fks) : fks[j].Symbol = fks[k].Symbol => j = k
                /\ {fks[k].Symbol : k \in 1..Len(fks)}
                       = {rows[k].constraintName : k \in 1..Len(rows)}
                /\ \A k \in 1..Len(fks) :
                       LET fk == fks[k]
                           R  == C11_RowsOf(i, fk.Symbol)
                       IN  /\ Len(fk.Columns) = Len(fk.RefColumns)
                           /\ \A p \in 1..Len(fk.Columns) :
                                  p <= Len(fk.RefColumns) =>
                                      \E q \in 1..Len(R) :
                                          /\ R[q].columnName = fk.Columns[p]
                                          /\ R[q].refColumnName = fk.RefColumns[p]
                           /\ \A q \in 1..Len(R) :
                                  /\ fkHas(fk.Columns, R[q].columnName)
                                  /\ fkHas(fk.RefColumns, R[q].refColumnName)
                           /\ tableLookup(ret.tables, fk.RefTable) # 0
                           /\ \A p \in 1..Len(fk.Columns) :
                                  hasColumn(ret.tables[i], fk.Columns[p])
                           /\ \A p \in 1..Len(fk.RefColumns) :
                                  hasColumn(ret.tables[tableLookup(ret.tables, fk.RefTable)],
                                            fk.RefColumns[p])
                /\ \A q \in 1..Len(rows) :
                       /\ tableLookup(ret.tables, rows[q].refTableName) # 0
                       /\ hasColumn(ret.tables[i], rows[q].columnName)
                       /\ hasColumn(ret.tables[tableLookup(ret.tables, rows[q].refTableName)],
                                    rows[q].refColumnName)

\* A query is issued on the connection in this step.
C12_QueryIssued == Len(tx') > Len(tx)

\* A function returns in this step, and the error it had before its deferred
\* calls ran is the error its caller gets.
C12_ReturnsItsError ==
    Len(stack') < Len(stack) =>
        IF stack' = <<>> THEN ret'.err = top.err
        ELSE stack'[Len(stack')].err = top.err

\* C12: in every run of init, table, indexes and foreignKeys, no query is
\* issued while a cursor of an earlier query is open and not drained; when no
\* call is in progress (after a return on any path) every cursor that was
\* opened is closed; and a Close of a cursor that is already closed changes
\* nothing of it and does not change the error the function returns.
C12_CursorDiscipline ==
    /\ [][C12_QueryIssued =>
              \A k \in 1..Len(cursors) : ~cursors[k].open \/ cursors[k].drained]_vars
    /\ [](stack = <<>> => \A k \in 1..Len(cursors) : ~cursors[k].open)
    /\ [][stack # <<>> =>
              /\ \A k \in 1..Len(cursors) :
                     (cursors[k].closes >= 1 /\ cursors'[k].closes > cursors[k].closes) =>
                         cursors'[k] = [cursors[k] EXCEPT !.closes = @ + 1]
              /\ C12_ReturnsItsError]_vars

\* table has returned an error from inside its loop over the rows (a scan
\* error or an iteration error) with rows left undelivered, and its cursor is
\* closed.
C12_WitnessErrorExit ==
    /\ stack = <<>> /\ ret.op = "table" /\ ret.err \in {"scanning", "rows error"}
    /\ Len(cursors) = 1 /\ ~cursors[1].open /\ ~cursors[1].drained /\ cursors[1].closes = 1

\* C12 witness: indexes, called by table, has its cursor open while the
\* cursor of table's query is drained and closed; and table's deferred Close
\* is still to close that cursor a second time.
C12_Witness ==
    /\ Len(stack) = 2 /\ top.fn = "indexes" /\ top.at = "next"
    /\ cursors[stack[1].cur].drained /\ ~cursors[stack[1].cur].open
    /\ cursors[stack[1].cur].closes = 1 /\ stack[1].own = <<stack[1].cur>>
    /\ cursors[top.cur].open

\* table has returned nil, and the cursor of its query was closed twice: by
\* the Close before indexes and by the deferred one.
C12_WitnessSecondClose ==
    /\ stack = <<>> /\ ret.op = "table" /\ ret.err = ""
    /\ cursors[1].closes = 2 /\ ~cursors[1].open

\* C13: after table has read a table back, what indexes returns for its
\* catalog has one Index for each catalog index, under that index's catalog
\* name as realname and with exactly its columns in in-index order; no two
\* catalog indexes share an Index.
C13_OneIndexPerCatalogIndex ==
    live # NoTable =>
        LET idxs == indexes(live.Name, indexRows(db.indexes))
        IN  /\ Len(idxs) = Cardinality(db.indexes)
            /\ \A x \in db.indexes :
                   \E k \in 1..Len(idxs) :
                       /\ idxs[k].realname = x.name
                       /\ idxs[k].columns = x.columns
            /\ \A k \in 1..Len(live.Indexes) :
                   \E x \in db.indexes :
                       /\ live.Indexes[k].realname = x.name
                       /\ live.Indexes[k].columns = x.columns

====
